---------------------------- MODULE Spec2Model ----------------------------
(***************************************************************************)
(* AI_TrainMax: the scripted BSP-Akaltara-Champa simulation                *)
(* (BspAkaltaraSimulation.tsx) and the live map overlay (MapComponent.tsx).*)
(*                                                                         *)
(* Numbers.  The source computes on JavaScript doubles; the model is exact *)
(* fixed point.  A time is a whole number of TimeUnit-ths of a minute      *)
(* (one unit = 0.2 min, the clock's step at speed 1).  A position is a     *)
(* whole number of KmUnit-ths of a km; KmUnit is a common multiple of      *)
(* every denominator getPositionKm divides by, so every position the       *)
(* source computes at a representable time is represented exactly.         *)
(***************************************************************************)
EXTENDS Integers, Sequences, FiniteSets, TLC

VARIABLES
    \* ---- BspAkaltaraSimulation component
    simTime,        \* useState simTime (time units)
    isPlaying,      \* useState isPlaying
    speed,          \* useState speed
    clockTimers,    \* live setInterval callbacks, each the speed its closure captured
    simMounted,     \* whether the component is mounted
    \* ---- calls of getPositionKm made by a caller that scrubs time
    evalId,         \* the train asked for
    evalT1,         \* the earlier time asked for (time units; a whole minute)
    evalT2,         \* the later time asked for (time units; any multiple of 0.2 min)
    evalKm1,        \* result of the call at evalT1
    evalKm2,        \* result of the call at evalT2
    evaluated,      \* which of the two calls have been made (subset of {1, 2})
    \* ---- MapComponent
    mapRef,         \* mapRef.current: "null", or the map's state "created" / "loaded"
    trains,         \* props.trains: the latest snapshot
    features,       \* the data of 'trains-source'
    visible,        \* the blink effect's closure variable
    blinkTimer,     \* whether the blink setInterval is live
    heldOpacity,    \* 'circle-opacity' of 'trains-layer' for a feature with status Held (percent)
    activeDB,       \* props.activeDB
    camera,         \* the target (center, zoom) of the map's last camera command
    tracksFetch,    \* the track-geometry request most recently started by a 'load' handler
    \* ---- history, for stating properties
    lastEvent,      \* the handler that ran last ("refocus": a camera command to the current target)
    lastApplied,    \* the snapshot of the last pass that reached setData
    overtook,       \* Rajdhani has been rendered ahead of MEMU before minute 50 of this run
    wasBelow,       \* Rajdhani has been rendered below Janshatabdi earlier in this run
    blinkCount,     \* blink ticks applied since the layer was added, up to MaxBlinkCount
    shownStamp,     \* production number of the snapshot 'trains-source' shows (0: none)
    freshStamp      \* highest production number among the snapshots applied so far

simVars  == <<simTime, isPlaying, speed, clockTimers, simMounted, overtook, wasBelow>>
evalVars == <<evalId, evalT1, evalT2, evalKm1, evalKm2, evaluated>>
blinkVars == <<visible, blinkTimer, heldOpacity, blinkCount>>
viewVars  == <<activeDB, camera>>
stampVars == <<shownStamp, freshStamp>>
mapVars  == <<mapRef, trains, features, lastApplied, blinkVars, viewVars, tracksFetch,
             stampVars>>
vars     == <<simVars, evalVars, mapVars, lastEvent>>

---------------------------------------------------------------------------
(* Units *)

TimeUnit == 5
KmUnit == 420

Minutes(m) == m * TimeUnit
Km(k) == k * KmUnit

\* a quotient (num / den) of the source, num in time units, as a position
Ratio(num, den) == (num * KmUnit) \div (den * TimeUnit)

---------------------------------------------------------------------------
(* BspAkaltaraSimulation.tsx: configuration and the position model *)

TrainIds == {"MEMU_LOCAL", "RAJDHANI", "JANSHATABDI", "UTKAL_EXP"}

TOTAL_DISTANCE == 65

\* trainsConfig, the trackIndex of each entry
trainsConfig ==
    [MEMU_LOCAL  |-> [trackIndex |-> 0],
     RAJDHANI    |-> [trackIndex |-> 1],
     JANSHATABDI |-> [trackIndex |-> 1],
     UTKAL_EXP   |-> [trackIndex |-> 2]]

MathMax(a, b) == IF a >= b THEN a ELSE b
MathMin(a, b) == IF a <= b THEN a ELSE b

clamp(v, min, max) == MathMax(min, MathMin(max, v))

\* The branch of getPositionKm that returns for (trainId, tMin): the n-th
\* return statement of the train's block, counted from 1.
Segment(trainId, tMin) ==
    CASE trainId = "MEMU_LOCAL" ->
           IF tMin < Minutes(10) THEN 1
           ELSE IF tMin < Minutes(50) THEN 2
           ELSE IF tMin < Minutes(60) THEN 3
           ELSE IF tMin <= Minutes(85) THEN 4
           ELSE 5
      [] trainId = "RAJDHANI" ->
           IF tMin < Minutes(25) THEN 1
           ELSE IF tMin < Minutes(30) THEN 2
           ELSE IF tMin < Minutes(50) THEN 3
           ELSE IF tMin <= Minutes(70) THEN 4
           ELSE 5
      [] trainId = "JANSHATABDI" ->
           IF tMin < Minutes(50) THEN 1
           ELSE IF tMin < Minutes(60) THEN 2
           ELSE IF tMin < Minutes(95) THEN 3
           ELSE IF tMin < Minutes(105) THEN 4
           ELSE IF tMin <= Minutes(135) THEN 5
           ELSE 6
      [] trainId = "UTKAL_EXP" ->
           IF tMin < Minutes(60) THEN 1
           ELSE IF tMin < Minutes(65) THEN 2
           ELSE IF tMin < Minutes(95) THEN 3
           ELSE IF tMin <= Minutes(125) THEN 4
           ELSE 5
      [] OTHER -> 0


\* MemuKm with the 10-minute departure offset forgotten (dt = tMin)
MemuKmDepartsAtZero(seg, tMin) ==
    CASE seg = 1 -> Km(0)
      [] seg = 2 -> LET dt == tMin IN clamp(Ratio(dt, 1), Km(0), Km(40))
      [] seg = 3 -> Km(40)
      [] seg = 4 -> LET dt == tMin - Minutes(60)
                    IN  clamp(Km(40) + Ratio(dt * 25, 25), Km(40), Km(65))
      [] OTHER   -> Km(65)

\* what the n-th return statement of the MEMU_LOCAL block returns
MemuKm(seg, tMin) ==
    CASE seg = 1 -> Km(0)
      [] seg = 2 -> LET dt == tMin - Minutes(10) IN clamp(Ratio(dt, 1), Km(0), Km(40))
      [] seg = 3 -> Km(40)
      [] seg = 4 -> LET dt == tMin - Minutes(60)
                    IN  clamp(Km(40) + Ratio(dt * 25, 25), Km(40), Km(65))
      [] OTHER   -> Km(65)


\* RajdhaniKm with the run to Akaltara starting at 12:25 instead of 12:30
RajdhaniKmDepartsEarly(seg, tMin) ==
    CASE seg = 1 -> Km(0)
      [] seg = 2 -> LET dt == tMin - Minutes(25) IN clamp(Ratio(dt * 40, 20), Km(0), Km(40))
      [] seg = 3 -> LET dt == tMin - Minutes(25) IN clamp(Ratio(dt * 40, 20), Km(0), Km(40))
      [] seg = 4 -> LET dt == tMin - Minutes(50)
                    IN  clamp(Km(40) + Ratio(dt * 25, 20), Km(40), Km(65))
      [] OTHER   -> Km(65)

\* RajdhaniKm with the Akaltara-Champa leg run in 25 minutes instead of 20
RajdhaniKmSlowSecondLeg(seg, tMin) ==
    CASE seg = 1 -> Km(0)
      [] seg = 2 -> Km(0)
      [] seg = 3 -> LET dt == tMin - Minutes(30) IN clamp(Ratio(dt * 40, 20), Km(0), Km(40))
      [] seg = 4 -> LET dt == tMin - Minutes(50)
                    IN  clamp(Km(40) + Ratio(dt * 25, 25), Km(40), Km(65))
      [] OTHER   -> Km(65)

\* what the n-th return statement of the RAJDHANI block returns
RajdhaniKm(seg, tMin) ==
    CASE seg = 1 -> Km(0)
      [] seg = 2 -> Km(0)
      [] seg = 3 -> LET dt == tMin - Minutes(30) IN clamp(Ratio(dt * 40, 20), Km(0), Km(40))
      [] seg = 4 -> LET dt == tMin - Minutes(50)
                    IN  clamp(Km(40) + Ratio(dt * 25, 20), Km(40), Km(65))
      [] OTHER   -> Km(65)


\* JanshatabdiKm with the descent from Champa running upwards from km 40
JanshatabdiKmWrongWay(seg, tMin) ==
    CASE seg = 1 -> Km(65)
      [] seg = 2 -> Km(65)
      [] seg = 3 -> LET dt == tMin - Minutes(60)
                    IN  clamp(Km(40) + Ratio(dt * 25, 35), Km(40), Km(65))
      [] seg = 4 -> Km(40)
      [] seg = 5 -> LET dt == tMin - Minutes(105)
                    IN  clamp(Km(40) - Ratio(dt * 40, 30), Km(0), Km(40))
      [] OTHER   -> Km(0)

\* what the n-th return statement of the JANSHATABDI block returns
JanshatabdiKm(seg, tMin) ==
    CASE seg = 1 -> Km(65)
      [] seg = 2 -> Km(65)
      [] seg = 3 -> LET dt == tMin - Minutes(60)
                    IN  clamp(Km(65) - Ratio(dt * 25, 35), Km(40), Km(65))
      [] seg = 4 -> Km(40)
      [] seg = 5 -> LET dt == tMin - Minutes(105)
                    IN  clamp(Km(40) - Ratio(dt * 40, 30), Km(0), Km(40))
      [] OTHER   -> Km(0)


\* UtkalKm with the last run neither clamped nor ended at 125
UtkalKmRunsOn(seg, tMin) ==
    CASE seg = 1 -> Km(65)
      [] seg = 2 -> Km(65)
      [] seg = 3 -> LET dt == tMin - Minutes(65)
                    IN  clamp(Km(65) - Ratio(dt * 25, 30), Km(40), Km(65))
      [] OTHER   -> LET dt == tMin - Minutes(95) IN Km(40) - Ratio(dt * 40, 30)


\* UtkalKm with the last run covering 30 km instead of 40 in its 30 minutes
UtkalKmSlowHalf(seg, tMin) ==
    CASE seg = 1 -> Km(65)
      [] seg = 2 -> Km(65)
      [] seg = 3 -> LET dt == tMin - Minutes(65)
                    IN  clamp(Km(65) - Ratio(dt * 25, 30), Km(40), Km(65))
      [] seg = 4 -> LET dt == tMin - Minutes(95)
                    IN  clamp(Km(40) - Ratio(dt * 30, 30), Km(0), Km(40))
      [] OTHER   -> Km(0)

\* UtkalKm with the run to Akaltara timed from minute 60 instead of 65
UtkalKmDepartsEarly(seg, tMin) ==
    CASE seg = 1 -> Km(65)
      [] seg = 2 -> Km(65)
      [] seg = 3 -> LET dt == tMin - Minutes(60)
                    IN  clamp(Km(65) - Ratio(dt * 25, 30), Km(40), Km(65))
      [] seg = 4 -> LET dt == tMin - Minutes(95)
                    IN  clamp(Km(40) - Ratio(dt * 40, 30), Km(0), Km(40))
      [] OTHER   -> Km(0)

\* what the n-th return statement of the UTKAL_EXP block returns
UtkalKm(seg, tMin) ==
    CASE seg = 1 -> Km(65)
      [] seg = 2 -> Km(65)
      [] seg = 3 -> LET dt == tMin - Minutes(65)
                    IN  clamp(Km(65) - Ratio(dt * 25, 30), Km(40), Km(65))
      [] seg = 4 -> LET dt == tMin - Minutes(95)
                    IN  clamp(Km(40) - Ratio(dt * 40, 30), Km(0), Km(40))
      [] OTHER   -> Km(0)

\* the value returned by return statement seg of trainId's block at tMin
SegmentKm(trainId, seg, tMin) ==
    CASE trainId = "MEMU_LOCAL"  -> MemuKm(seg, tMin)
      [] trainId = "RAJDHANI"    -> RajdhaniKm(seg, tMin)
      [] trainId = "JANSHATABDI" -> JanshatabdiKm(seg, tMin)
      [] trainId = "UTKAL_EXP"   -> UtkalKm(seg, tMin)
      [] OTHER                   -> Km(0)

getPositionKm(trainId, tMin) == SegmentKm(trainId, Segment(trainId, tMin), tMin)

---------------------------------------------------------------------------
(* BspAkaltaraSimulation.tsx: the component *)

SpeedButtons == {1, 5, 10}


\* advance with the loop test written >= instead of >
advanceWrapsAtHorizon(prev, spd) ==
    LET next == prev + (spd * 2 * TimeUnit) \div 10
    IN  IF next >= Minutes(150) THEN 0 ELSE next

\* the updater passed to setSimTime by the interval callback
advance(prev, spd) ==
    LET next == prev + (spd * 2 * TimeUnit) \div 10    \* prev + speed * 0.2
    IN  IF next > Minutes(150) THEN 0 ELSE next

\* AnimationEffect without the early return for a paused clock
AnimationEffectIgnoresPause(playing, spd) == {spd}

\* the animation effect after a render with (playing, spd): its cleanup has
\* cleared the previous interval, its body has set the new one or returned
AnimationEffect(playing, spd) == IF playing THEN {spd} ELSE {}

\* history: has RAJDHANI been rendered ahead of MEMU_LOCAL before minute 50
\* since the scenario last started from 0
Observe(t, before) ==
    IF t = 0 THEN FALSE
    ELSE before \/ (t < Minutes(50)
                    /\ getPositionKm("RAJDHANI", t) > getPositionKm("MEMU_LOCAL", t))

\* history: has RAJDHANI been rendered at a smaller km than JANSHATABDI at an
\* earlier time (up to tOld) since the scenario last started from 0
ObserveBelow(tNew, tOld, before) ==
    IF tNew = 0 THEN FALSE
    ELSE before \/ getPositionKm("RAJDHANI", tOld) < getPositionKm("JANSHATABDI", tOld)

SimInit ==
    /\ simTime = 0
    /\ isPlaying = TRUE
    /\ speed = 5
    /\ clockTimers = AnimationEffect(TRUE, 5)
    /\ simMounted = TRUE
    /\ overtook = FALSE
    /\ wasBelow = FALSE

\* one firing of a live interval callback
Tick ==
    /\ simMounted
    /\ \E spd \in clockTimers :
         /\ simTime' = advance(simTime, spd)
         /\ overtook' = Observe(simTime', overtook)
         /\ wasBelow' = ObserveBelow(simTime', simTime, wasBelow)
    /\ lastEvent' = "tick"
    /\ UNCHANGED <<isPlaying, speed, clockTimers, simMounted>>
    /\ UNCHANGED <<evalVars, mapVars>>

\* the Play/Pause button
TogglePlay ==
    /\ simMounted
    /\ isPlaying' = ~isPlaying
    /\ clockTimers' = AnimationEffect(isPlaying', speed)
    /\ lastEvent' = "toggle"
    /\ UNCHANGED <<simTime, speed, simMounted, overtook, wasBelow>>
    /\ UNCHANGED <<evalVars, mapVars>>

\* the Reset button
Reset ==
    /\ simMounted
    /\ simTime' = 0
    /\ overtook' = Observe(0, overtook)
    /\ wasBelow' = ObserveBelow(0, simTime, wasBelow)
    /\ lastEvent' = "reset"
    /\ UNCHANGED <<isPlaying, speed, clockTimers, simMounted>>
    /\ UNCHANGED <<evalVars, mapVars>>

\* one of the speed buttons
SetSpeed ==
    /\ simMounted
    /\ \E s \in SpeedButtons :
         /\ speed' = s
         /\ clockTimers' = AnimationEffect(isPlaying, s)
    /\ lastEvent' = "speed"
    /\ UNCHANGED <<simTime, isPlaying, simMounted, overtook, wasBelow>>
    /\ UNCHANGED <<evalVars, mapVars>>

\* the component is unmounted: the effect's cleanup runs
SimUnmount ==
    /\ simMounted
    /\ simMounted' = FALSE
    /\ clockTimers' = {}
    /\ lastEvent' = "unmount"
    /\ UNCHANGED <<simTime, isPlaying, speed, overtook, wasBelow>>
    /\ UNCHANGED <<evalVars, mapVars>>

\* the component is mounted again, with fresh state
SimMount ==
    /\ ~simMounted
    /\ simTime' = 0
    /\ isPlaying' = TRUE
    /\ speed' = 5
    /\ clockTimers' = AnimationEffect(TRUE, 5)
    /\ simMounted' = TRUE
    /\ overtook' = FALSE
    /\ wasBelow' = FALSE
    /\ lastEvent' = "mount"
    /\ UNCHANGED <<evalVars, mapVars>>

---------------------------------------------------------------------------
(* Calls of getPositionKm at two times, in either order, any number of times *)

EvalBefore == 5
EvalAfter == 5

\* whole minutes from EvalBefore before 12:00 to EvalAfter after the loop point
EvalTimes == {Minutes(m) : m \in (0 - EvalBefore)..(150 + EvalAfter)}

\* every time of the clock's resolution (0.2 min) in the same range
EvalFineTimes == (0 - Minutes(EvalBefore))..Minutes(150 + EvalAfter)

EvalIdle ==
    /\ evalId = "MEMU_LOCAL"
    /\ evalT1 = 0
    /\ evalT2 = 0
    /\ evalKm1 = 0
    /\ evalKm2 = 0
    /\ evaluated = {}

EvalInit ==
    /\ evalId \in TrainIds
    /\ evalT1 \in EvalTimes
    /\ evalT2 \in EvalFineTimes
    /\ evalT1 <= evalT2
    /\ evalKm1 = 0
    /\ evalKm2 = 0
    /\ evaluated = {}

EvalFirst ==
    /\ evalKm1' = getPositionKm(evalId, evalT1)
    /\ evaluated' = evaluated \cup {1}
    /\ UNCHANGED <<evalId, evalT1, evalT2, evalKm2>>
    /\ UNCHANGED <<simVars, mapVars, lastEvent>>

EvalSecond ==
    /\ evalKm2' = getPositionKm(evalId, evalT2)
    /\ evaluated' = evaluated \cup {2}
    /\ UNCHANGED <<evalId, evalT1, evalT2, evalKm1>>
    /\ UNCHANGED <<simVars, mapVars, lastEvent>>

---------------------------------------------------------------------------
(* MapComponent.tsx *)

MaxTrains == 2
MaxBlinkCount == 3

\* the train numbers (identities) the snapshots draw from
TrainNos == {12261, 18237}

\* JavaScript values of the coordinate fields: null/undefined, or a number
Null == [type |-> "null"]
Num(n) == [type |-> "number", value |-> n]

\* ToBoolean, as the filter's && applies it
Truthy(v) == v.type = "number" /\ v.value # 0

\* <<current_lat, current_lon>> of the entities a snapshot may hold
Coordinates ==
    {<<Num(22), Num(82)>>, <<Null, Num(82)>>, <<Num(22), Null>>, <<Num(0), Num(82)>>}

\* TrainData, the fields the reconciliation reads
Entities ==
    {[train_no |-> n, current_lat |-> c[1], current_lon |-> c[2]] :
        n \in TrainNos, c \in Coordinates}

\* the values props.trains may take
Snapshots == UNION {[1..k -> Entities] : k \in 0..MaxTrains}


\* BuildFeatures with the new features added to the source's old ones
BuildFeaturesOntoOld(ts) ==
    LET Keep(t) == Truthy(t.current_lat) /\ Truthy(t.current_lon)
        kept == SelectSeq(ts, Keep)
    IN  features \o [i \in 1..Len(kept) |->
                        [coordinates |-> <<kept[i].current_lon, kept[i].current_lat>>,
                         properties  |-> kept[i]]]

\* trains.filter(...).map(...): the features of a snapshot
BuildFeatures(ts) ==
    LET Keep(t) == Truthy(t.current_lat) /\ Truthy(t.current_lon)
        kept == SelectSeq(ts, Keep)
    IN  [i \in 1..Len(kept) |->
            [coordinates |-> <<kept[i].current_lon, kept[i].current_lat>>,
             properties  |-> kept[i]]]

\* centers, in thousandths of a degree: <<longitude, latitude>>
INDIA_CENTER == <<77000, 23000>>
CG_CENTER == <<82000, 21500>>
BSP_AKALTARA_CENTER == <<82075, 22070>>

\* the values props.activeDB is declared to take
DeclaredDBs == {"india_db", "cg_db"}

\* the values the parent may pass: the declared ones, and a name that is
\* neither (the declaration is erased at run time)
ActiveDBs == DeclaredDBs \cup {"mp_db"}

\* the argument of map.flyTo, which becomes the camera's target
flyTo(center, zoom) == [center |-> center, zoom |-> zoom]

\* the activeDB effect with the India view for every name
ViewForAlwaysIndia(db) == flyTo(INDIA_CENTER, 4)

\* center and zoom as the constructor call and the activeDB effect choose them
ViewFor(db) ==
    flyTo(IF db = "cg_db" THEN CG_CENTER ELSE INDIA_CENTER,
          IF db = "cg_db" THEN 6 ELSE 4)

MaxStamp == 2

\* production numbers of the snapshots the data source emits
Stamps == 1..MaxStamp

\* the other specifications leave the map component unmounted
MapIdle ==
    /\ mapRef = "null"
    /\ trains = <<>>
    /\ features = <<>>
    /\ visible = TRUE
    /\ blinkTimer = FALSE
    /\ heldOpacity = 100
    /\ lastApplied = <<>>
    /\ blinkCount = 0
    /\ activeDB = "india_db"
    /\ camera = ViewFor("india_db")
    /\ tracksFetch = "none"
    /\ shownStamp = 0
    /\ freshStamp = 0

\* after the first render's effects: the map is created and not yet loaded,
\* the trains effect found no source, the blink interval is set, the camera
\* is where the constructor and the activeDB effect put it
MapInit ==
    /\ mapRef = "created"
    /\ trains \in Snapshots
    /\ features = <<>>
    /\ visible = TRUE
    /\ blinkTimer = TRUE
    /\ heldOpacity = 100
    /\ lastApplied = <<>>
    /\ blinkCount = 0
    /\ activeDB = "india_db"
    /\ camera = ViewFor(activeDB)
    /\ tracksFetch = "none"
    /\ shownStamp = 0
    /\ freshStamp = 0

\* map.on('load'): the sources are added empty, the layers with opacity 1,
\* and the track-geometry request is sent
MapLoad ==
    /\ mapRef = "created"
    /\ mapRef' = "loaded"
    /\ features' = <<>>
    /\ heldOpacity' = 100
    /\ tracksFetch' = "pending"
    /\ lastEvent' = "load"
    /\ UNCHANGED <<trains, visible, blinkTimer, lastApplied, blinkCount>>
    /\ UNCHANGED <<viewVars, stampVars>>
    /\ UNCHANGED <<simVars, evalVars>>

\* effect 2 with the trains array s, with no retry armed when it returns early
TrainsEffect(s) ==
    /\ trains' = s
    /\ IF mapRef = "loaded"
       THEN /\ features' = BuildFeatures(s)
            /\ lastApplied' = <<s>>
            /\ lastEvent' = IF lastApplied = <<s>> THEN "trainsAgain" ELSE "trains"
       ELSE /\ lastEvent' = "trainsSkipped"
            /\ UNCHANGED <<features, lastApplied>>

\* the parent passes a new trains array: effect 2 runs
SetTrains ==
    /\ mapRef # "null"
    /\ \E s \in Snapshots : TrainsEffect(s)
    /\ UNCHANGED <<mapRef, blinkVars, viewVars, tracksFetch, stampVars>>
    /\ UNCHANGED <<simVars, evalVars>>

\* the snapshots of the live feed: at most one train each
FeedSnapshots == UNION {[1..k -> Entities] : k \in 0..1}

\* ReceiveSnapshot with the blink phase recomputed by every pass
ReceiveSnapshotRestartsBlink ==
    /\ mapRef # "null"
    /\ \E s \in FeedSnapshots, k \in Stamps :
         /\ TrainsEffect(s)
         /\ IF mapRef = "loaded"
            THEN /\ shownStamp' = k
                 /\ freshStamp' = MathMax(freshStamp, k)
            ELSE UNCHANGED stampVars
    /\ visible' = TRUE
    /\ heldOpacity' = 100
    /\ UNCHANGED <<mapRef, blinkTimer, blinkCount, viewVars, tracksFetch>>
    /\ UNCHANGED <<simVars, evalVars>>

\* the parent passes the snapshot the data source produced k-th, in whatever
\* order the feed delivers them: effect 2 runs, and reads no production number
ReceiveSnapshot ==
    /\ mapRef # "null"
    /\ \E s \in FeedSnapshots, k \in Stamps :
         /\ TrainsEffect(s)
         /\ IF mapRef = "loaded"
            THEN /\ shownStamp' = k
                 /\ freshStamp' = MathMax(freshStamp, k)
            ELSE UNCHANGED stampVars
    /\ UNCHANGED <<mapRef, blinkVars, viewVars, tracksFetch>>
    /\ UNCHANGED <<simVars, evalVars>>

\* one firing of the blink interval (opacity in percent: 1 is 100, 0.2 is 20)
BlinkTick ==
    /\ blinkTimer
    /\ IF mapRef = "loaded"
       THEN /\ heldOpacity' = IF visible THEN 100 ELSE 20
            /\ visible' = ~visible
            /\ blinkCount' = IF blinkCount < MaxBlinkCount THEN blinkCount + 1 ELSE blinkCount
            /\ lastEvent' = "blink"
       ELSE /\ lastEvent' = "blinkSkipped"
            /\ UNCHANGED <<heldOpacity, visible, blinkCount>>
    /\ UNCHANGED <<mapRef, trains, features, blinkTimer, lastApplied>>
    /\ UNCHANGED <<viewVars, tracksFetch, stampVars>>
    /\ UNCHANGED <<simVars, evalVars>>

\* the parent passes another activeDB: effect 4 runs
SetActiveDB ==
    /\ mapRef # "null"
    /\ \E db \in ActiveDBs \ {activeDB} :
         /\ activeDB' = db
         /\ camera' = ViewFor(db)
         /\ lastEvent' = IF camera = ViewFor(db) THEN "refocus" ELSE "activeDB"
    /\ UNCHANGED <<mapRef, trains, features, lastApplied, blinkVars, tracksFetch, stampVars>>
    /\ UNCHANGED <<simVars, evalVars>>

\* the button "1. India Level"
navigateToIndia ==
    /\ mapRef # "null"
    /\ camera' = flyTo(INDIA_CENTER, 4)
    /\ lastEvent' = IF camera = flyTo(INDIA_CENTER, 4) THEN "refocus" ELSE "navigateToIndia"
    /\ UNCHANGED <<mapRef, trains, features, lastApplied, blinkVars, activeDB, tracksFetch,
                   stampVars>>
    /\ UNCHANGED <<simVars, evalVars>>

\* the button "2. Chhattisgarh Level"
navigateToCG ==
    /\ mapRef # "null"
    /\ camera' = flyTo(CG_CENTER, 6)
    /\ lastEvent' = IF camera = flyTo(CG_CENTER, 6) THEN "refocus" ELSE "navigateToCG"
    /\ UNCHANGED <<mapRef, trains, features, lastApplied, blinkVars, activeDB, tracksFetch,
                   stampVars>>
    /\ UNCHANGED <<simVars, evalVars>>

\* the button "3. BSP-Akaltara Section"
navigateToBSPSection ==
    /\ mapRef # "null"
    /\ camera' = flyTo(BSP_AKALTARA_CENTER, 12)
    /\ lastEvent' = IF camera = flyTo(BSP_AKALTARA_CENTER, 12) THEN "refocus" ELSE "navigateToBSPSection"
    /\ UNCHANGED <<mapRef, trains, features, lastApplied, blinkVars, activeDB, tracksFetch,
                   stampVars>>
    /\ UNCHANGED <<simVars, evalVars>>

\* the track-geometry response arrives: the handler calls getSource and setData
\* on the map of its closure, alive ("pending") or removed ("orphaned")
FetchResolve ==
    /\ tracksFetch \in {"pending", "orphaned"}
    /\ tracksFetch' = IF tracksFetch = "pending" THEN "done" ELSE "none"
    /\ lastEvent' = IF tracksFetch = "pending" THEN "fetch" ELSE "fetchOnRemoved"
    /\ UNCHANGED <<mapRef, trains, features, lastApplied, blinkVars, viewVars, stampVars>>
    /\ UNCHANGED <<simVars, evalVars>>

\* the request fails: .catch logs the error and no map is touched
FetchReject ==
    /\ tracksFetch \in {"pending", "orphaned"}
    /\ tracksFetch' = IF tracksFetch = "pending" THEN "failed" ELSE "none"
    /\ lastEvent' = "fetchFailed"
    /\ UNCHANGED <<mapRef, trains, features, lastApplied, blinkVars, viewVars, stampVars>>
    /\ UNCHANGED <<simVars, evalVars>>

\* MapUnmount without the blink effect's cleanup: the interval stays live
MapUnmountKeepsInterval ==
    /\ mapRef # "null"
    /\ mapRef' = "null"
    /\ features' = <<>>
    /\ heldOpacity' = 100
    /\ visible' = TRUE
    /\ lastApplied' = <<>>
    /\ blinkCount' = 0
    /\ tracksFetch' = IF tracksFetch \in {"pending", "orphaned"} THEN "orphaned" ELSE "none"
    /\ shownStamp' = 0
    /\ freshStamp' = 0
    /\ lastEvent' = "unmount"
    /\ UNCHANGED <<trains, blinkTimer, viewVars>>
    /\ UNCHANGED <<simVars, evalVars>>

\* unmount: the cleanups remove the map, null the ref and clear the interval;
\* nothing cancels a pending track-geometry request
MapUnmount ==
    /\ mapRef # "null"
    /\ mapRef' = "null"
    /\ blinkTimer' = FALSE
    /\ features' = <<>>
    /\ heldOpacity' = 100
    /\ visible' = TRUE
    /\ lastApplied' = <<>>
    /\ blinkCount' = 0
    /\ tracksFetch' = IF tracksFetch \in {"pending", "orphaned"} THEN "orphaned" ELSE "none"
    /\ shownStamp' = 0
    /\ freshStamp' = 0
    /\ lastEvent' = "unmount"
    /\ UNCHANGED <<trains, viewVars>>
    /\ UNCHANGED <<simVars, evalVars>>

\* mount again with the same props: the effects run as at the first mount
MapMount ==
    /\ mapRef = "null"
    /\ mapRef' = "created"
    /\ blinkTimer' = TRUE
    /\ visible' = TRUE
    /\ camera' = ViewFor(activeDB)
    /\ lastEvent' = "mount"
    /\ UNCHANGED <<trains, features, heldOpacity, lastApplied, blinkCount>>
    /\ UNCHANGED <<activeDB, tracksFetch, stampVars>>
    /\ UNCHANGED <<simVars, evalVars>>

---------------------------------------------------------------------------
(* Specifications *)

Init == SimInit /\ EvalIdle /\ MapIdle /\ lastEvent = "init"

Next == Tick \/ TogglePlay \/ Reset \/ SetSpeed \/ SimUnmount \/ SimMount

\* the simulation component
Spec == Init /\ [][Next]_vars

InitEval == SimInit /\ EvalInit /\ MapIdle /\ lastEvent = "init"

NextEval == EvalFirst \/ EvalSecond

\* the position model, called at two times
SpecEval == InitEval /\ [][NextEval]_vars

InitMap == SimInit /\ EvalIdle /\ MapInit /\ lastEvent = "init"

NextMap == MapLoad \/ SetTrains \/ BlinkTick \/ MapUnmount \/ MapMount

\* the map component
SpecMap == InitMap /\ [][NextMap]_vars

InitOverlay ==
    SimInit /\ EvalIdle /\ MapInit /\ trains \in FeedSnapshots /\ lastEvent = "init"

NextOverlay ==
    \/ MapLoad \/ ReceiveSnapshot \/ BlinkTick
    \/ SetActiveDB \/ navigateToIndia \/ navigateToCG \/ navigateToBSPSection
    \/ FetchResolve \/ FetchReject
    \/ MapUnmount \/ MapMount

\* the map component under a live feed, with its camera and its track request
SpecOverlay == InitOverlay /\ [][NextOverlay]_vars

\* the same, with what the runtime guarantees: a created map fires 'load',
\* a live interval keeps firing, a sent request settles
FairSpecOverlay ==
    /\ InitOverlay /\ [][NextOverlay]_vars
    /\ WF_vars(MapLoad)
    /\ WF_vars(BlinkTick)
    /\ WF_vars(FetchResolve \/ FetchReject)

InitTimers == SimInit /\ EvalIdle /\ MapInit /\ trains = <<>> /\ lastEvent = "init"

NextTimers ==
    \/ Tick \/ TogglePlay \/ Reset \/ SetSpeed \/ SimUnmount \/ SimMount
    \/ MapLoad \/ BlinkTick \/ MapUnmount \/ MapMount

\* both components, each with its recurring timer, mounted and unmounted
SpecTimers == InitTimers /\ [][NextTimers]_vars

---------------------------------------------------------------------------
(* Properties of the simulation clock *)

\* C1: after any sequence of ticks, Reset clicks, speed changes and
\* Play/Pause toggles, simTime is within [0, 150] minutes; a tick sets it to 0
\* exactly when prev + speed * 0.2 would exceed 150, and to prev + speed * 0.2
\* otherwise.
C1_ClockLoops ==
    /\ [](simTime >= 0 /\ simTime <= 150 * TimeUnit)
    /\ [][lastEvent' = "tick" =>
            /\ (simTime' = 0) <=> (simTime + speed > 150 * TimeUnit)
            /\ (simTime' # 0) => (simTime' = simTime + speed)]_vars

\* a tick has just wrapped the clock from the horizon back to 0
C1_Witness == lastEvent = "tick" /\ simTime = 0 /\ speed = 1 /\ isPlaying

---------------------------------------------------------------------------
(* Properties of the position model *)

\* the results of the calls made so far, as <<time, km>> pairs
Evaluations ==
    (IF 1 \in evaluated THEN {<<evalT1, evalKm1>>} ELSE {})
        \cup (IF 2 \in evaluated THEN {<<evalT2, evalKm2>>} ELSE {})

\* C2: for every train and every time, also outside [0, 150], getPositionKm
\* returns a progress within [0, TOTAL_DISTANCE].
C2_ProgressInRange ==
    \A e \in Evaluations : e[2] >= 0 /\ e[2] <= TOTAL_DISTANCE * KmUnit

\* both calls made, one before 12:00 and one after the loop point
C2_Witness ==
    /\ evaluated = {1, 2}
    /\ evalId = "UTKAL_EXP"
    /\ evalT1 < 0
    /\ evalT2 > 150 * TimeUnit
    /\ evalKm1 = 65 * KmUnit
    /\ evalKm2 = 0

\* the internal boundary times of each train's piecewise definition, in
\* minutes: the i-th separates the i-th and the (i+1)-th segment
BoundaryMinutes(id) ==
    CASE id = "MEMU_LOCAL"  -> <<10, 50, 60, 85>>
      [] id = "RAJDHANI"    -> <<25, 30, 50, 70>>
      [] id = "JANSHATABDI" -> <<50, 60, 95, 105, 135>>
      [] id = "UTKAL_EXP"   -> <<60, 65, 95, 125>>

\* C3: at every internal boundary time b of a train, the progress the segment
\* ending at b reaches at b equals the progress the segment starting at b
\* yields at b, and that is the value getPositionKm returns at b.
C3_ContinuousAtBoundaries ==
    \A e \in Evaluations :
        \A i \in 1..Len(BoundaryMinutes(evalId)) :
            e[1] = BoundaryMinutes(evalId)[i] * TimeUnit =>
                /\ SegmentKm(evalId, i, e[1]) = e[2]
                /\ SegmentKm(evalId, i + 1, e[1]) = e[2]

\* Janshatabdi evaluated at the boundary 95, where its descent meets the hold
C3_Witness ==
    /\ evalId = "JANSHATABDI"
    /\ 2 \in evaluated
    /\ evalT2 = 95 * TimeUnit
    /\ evalKm2 = 40 * KmUnit

\* C4: for t1 < t2 within the same linear segment, progress does not
\* decrease for MEMU and Rajdhani (towards Champa) and does not increase for
\* Janshatabdi and Utkal (towards BSP).
C4_MonotonicWithinSegment ==
    (/\ evaluated = {1, 2}
     /\ evalT1 < evalT2
     /\ Segment(evalId, evalT1) = Segment(evalId, evalT2))
    => /\ evalId \in {"MEMU_LOCAL", "RAJDHANI"} => evalKm1 <= evalKm2
       /\ evalId \in {"JANSHATABDI", "UTKAL_EXP"} => evalKm1 >= evalKm2

\* two calls within Janshatabdi's descent from Champa, the later one nearer BSP
C4_Witness ==
    /\ evaluated = {1, 2}
    /\ evalId = "JANSHATABDI"
    /\ evalT1 = 70 * TimeUnit
    /\ evalT2 = 80 * TimeUnit
    /\ evalKm1 > evalKm2

\* the reference schedule of the claim: held at 0 on [0,10), linear 0 -> 40
\* on [10,50), held at 40 on [50,60)
ReferenceKm(t) ==
    IF t < 10 * TimeUnit THEN 0
    ELSE IF t < 50 * TimeUnit
         THEN ((t - 10 * TimeUnit) * (40 * KmUnit)) \div ((50 - 10) * TimeUnit)
         ELSE 40 * KmUnit

\* C5: MEMU_LOCAL evaluates to the reference schedule on [0, 60); at t = 0 it
\* is 0, at t = 30 it is 20 and at t = 55 it is 40, whatever the order and
\* number of the calls.
C5_MemuMatchesReference ==
    evalId = "MEMU_LOCAL" =>
        \A e \in Evaluations :
            /\ (e[1] >= 0 /\ e[1] < 60 * TimeUnit) => e[2] = ReferenceKm(e[1])
            /\ e[1] = 0 => e[2] = 0
            /\ e[1] = 30 * TimeUnit => e[2] = 20 * KmUnit
            /\ e[1] = 55 * TimeUnit => e[2] = 40 * KmUnit

\* MEMU evaluated at 30 and at 55
C5_Witness ==
    /\ evalId = "MEMU_LOCAL"
    /\ evaluated = {1, 2}
    /\ evalT1 = 30 * TimeUnit
    /\ evalT2 = 55 * TimeUnit
    /\ evalKm1 = 20 * KmUnit
    /\ evalKm2 = 40 * KmUnit

---------------------------------------------------------------------------
(* The Rajdhani / MEMU overtake, as rendered by the simulation *)

renderedKm(id) == getPositionKm(id, simTime)

\* C6 as claimed: Rajdhani and MEMU are on the same lane, both are at
\* progress 40 at t = 50, and Rajdhani's progress has passed MEMU's at some
\* time before t = 50.
C6_CrossBefore50 ==
    simTime = 50 * TimeUnit =>
        /\ trainsConfig["RAJDHANI"].trackIndex = trainsConfig["MEMU_LOCAL"].trackIndex
        /\ renderedKm("RAJDHANI") = 40 * KmUnit
        /\ renderedKm("MEMU_LOCAL") = 40 * KmUnit
        /\ overtook

\* C6, amended: Rajdhani (lane 1) and MEMU (lane 0) are on different lanes;
\* both are at progress 40 at t = 50; Rajdhani is never ahead of MEMU before
\* t = 50 and is strictly ahead for 50 < t < 85, so the curves cross at
\* t = 50 and not before; and neither curve jumps: over a tick that does not
\* wrap, MEMU advances by at most 1 km per minute and Rajdhani by at most
\* 2 km per minute.
C6_CrossAt50 ==
    /\ [](/\ trainsConfig["RAJDHANI"].trackIndex # trainsConfig["MEMU_LOCAL"].trackIndex
          /\ simTime = 50 * TimeUnit =>
                /\ renderedKm("RAJDHANI") = 40 * KmUnit
                /\ renderedKm("MEMU_LOCAL") = 40 * KmUnit
          /\ simTime < 50 * TimeUnit =>
                /\ renderedKm("RAJDHANI") <= renderedKm("MEMU_LOCAL")
                /\ ~overtook
          /\ (simTime > 50 * TimeUnit /\ simTime < 85 * TimeUnit) =>
                renderedKm("RAJDHANI") > renderedKm("MEMU_LOCAL"))
    /\ [][(lastEvent' = "tick" /\ simTime' > simTime) =>
            LET dt == simTime' - simTime
                dMemu == getPositionKm("MEMU_LOCAL", simTime') - renderedKm("MEMU_LOCAL")
                dRaj == getPositionKm("RAJDHANI", simTime') - renderedKm("RAJDHANI")
            IN  /\ dMemu >= 0 /\ dMemu * TimeUnit <= dt * 1 * KmUnit
                /\ dRaj >= 0 /\ dRaj * TimeUnit <= dt * 2 * KmUnit]_vars

\* the clock has ticked to t = 50 with both trains at km 40, Rajdhani not
\* having been ahead before
C6_Witness ==
    /\ lastEvent = "tick"
    /\ simTime = 50 * TimeUnit
    /\ renderedKm("RAJDHANI") = 40 * KmUnit
    /\ renderedKm("MEMU_LOCAL") = 40 * KmUnit
    /\ ~overtook

---------------------------------------------------------------------------
(* Properties of the reconciliation and of the blink *)

\* the latest snapshot has been applied to 'trains-source'
PassApplied == mapRef = "loaded" /\ lastApplied = <<trains>>

\* the number of rendered features that carry identity n
FeatureCount(n) ==
    Cardinality({i \in 1..Len(features) : features[i].properties.train_no = n})

\* the snapshot holds an entry of identity n with both coordinates usable
\* (numbers other than 0: a zero coordinate is the subject of C9)
Renderable(n) ==
    \E i \in 1..Len(trains) :
        /\ trains[i].train_no = n
        /\ trains[i].current_lat.type = "number" /\ trains[i].current_lat.value # 0
        /\ trains[i].current_lon.type = "number" /\ trains[i].current_lon.value # 0

\* C7: after every pass applied to the trains source, the collection holds
\* exactly one feature for each identity the latest snapshot presents (also
\* when the snapshot lists the identity more than once) and none for an
\* identity absent from it; so a snapshot that drops one entity removes that
\* entity's feature and no other.
C7_OneFeaturePerIdentity ==
    PassApplied =>
        \A n \in TrainNos :
            /\ Renderable(n) => FeatureCount(n) = 1
            /\ (\A i \in 1..Len(trains) : trains[i].train_no # n) => FeatureCount(n) = 0

\* C8: applying the same snapshot twice in a row, with any number of blink
\* ticks in between, leaves the rendered collection as it was after the
\* first application.
C8_ReconcileIdempotent ==
    [][(lastEvent' \in {"trains", "trainsAgain"} /\ lastApplied = <<trains'>>)
          => features' = features]_vars

\* a snapshot with two rendered entities has just been applied a second
\* time, after blink ticks
C8_Witness ==
    /\ lastEvent = "trainsAgain"
    /\ PassApplied
    /\ Len(features) = 2
    /\ blinkCount > 0

\* C9: the rendered set holds exactly the snapshot's entities whose latitude
\* and longitude are both valid coordinates (numbers), in the snapshot's
\* order; entities lacking a coordinate are left out without failing the pass.
C9_ValidCoordinatesRendered ==
    PassApplied =>
        LET Valid(t) == t.current_lat.type = "number" /\ t.current_lon.type = "number"
            valid == SelectSeq(trains, Valid)
        IN  /\ Len(features) = Len(valid)
            /\ \A i \in 1..Len(valid) : features[i].properties = valid[i]

\* C10: from the initial visible state (opacity 1), with the layer present,
\* the first blink tick turns a Held entity off (dim, 0.2) and the second
\* turns it on again (1): two toggles after two cadences.
C10_TwoTogglesInTwoTicks ==
    mapRef = "loaded" =>
        /\ blinkCount = 0 => heldOpacity = 100
        /\ blinkCount = 1 => heldOpacity = 20
        /\ blinkCount = 2 => heldOpacity = 100

---------------------------------------------------------------------------
(* Properties of the overlay's timers, camera and feed *)

\* the commands that ask the camera for a view context
ContextSwitch ==
    SetActiveDB \/ navigateToIndia \/ navigateToCG \/ navigateToBSPSection

\* C11: a reconciliation pass (a snapshot arrives) and a camera context switch
\* leave the blink phase and the blink timer unchanged, and a blink tick leaves
\* the rendered feature collection unchanged, in every interleaving of the three.
C11_BlinkIndependent ==
    [][ /\ (ReceiveSnapshot \/ ContextSwitch) => UNCHANGED blinkVars
        /\ BlinkTick => UNCHANGED features ]_vars

\* a pass has been applied and the camera moved while the blink is in its
\* second half-cycle
C11_Witness ==
    /\ lastEvent = "trains"
    /\ features # <<>>
    /\ ~visible
    /\ blinkTimer
    /\ camera = flyTo(BSP_AKALTARA_CENTER, 12)

\* C12: a snapshot older than the last applied one is dropped: the rendered
\* collection always shows the freshest snapshot applied so far, never a
\* staler one that arrived later.
C12_FreshestShown == mapRef = "loaded" => shownStamp = freshStamp

\* C13: once a driving tick is stopped (simulation paused or unmounted, map
\* component unmounted) no further clock-tick or blink-tick callback fires and
\* no interval of either component is left live.
C13_NoTickAfterStop ==
    /\ [](~(simMounted /\ isPlaying) => clockTimers = {})
    /\ [](mapRef = "null" => ~blinkTimer)
    /\ [][ /\ Tick => (simMounted /\ isPlaying)
           /\ BlinkTick => mapRef # "null" ]_vars

\* the clock was paused after running and the map was then unmounted
C13_Witness ==
    /\ simMounted
    /\ ~isPlaying
    /\ simTime > 0
    /\ mapRef = "null"
    /\ lastEvent = "unmount"

\* the three view contexts
IndiaView == flyTo(INDIA_CENTER, 4)
CGView == flyTo(CG_CENTER, 6)
BSPSectionView == flyTo(BSP_AKALTARA_CENTER, 12)

\* the view context a declared activeDB value names
ContextOf(db) == IF db = "cg_db" THEN CGView ELSE IndiaView

\* C14: the camera's target is exactly one of the three view contexts, and a
\* focus request for the context already active, from a navigation button or
\* from an activeDB change, leaves the camera target unchanged.
C14_RefocusIsNoOp ==
    /\ [](camera \in {IndiaView, CGView, BSPSectionView})
    /\ [][ /\ (navigateToIndia /\ camera = IndiaView) => camera' = camera
           /\ (navigateToCG /\ camera = CGView) => camera' = camera
           /\ (navigateToBSPSection /\ camera = BSPSectionView) => camera' = camera
           /\ (SetActiveDB /\ activeDB' \in DeclaredDBs /\ camera = ContextOf(activeDB'))
                 => camera' = camera ]_vars

\* the Chhattisgarh view was asked for, by an activeDB change, while active
C14_Witness ==
    /\ lastEvent = "refocus"
    /\ activeDB = "cg_db"
    /\ camera = CGView

\* C15: an invalid parameter leaves the state unchanged: the speed is positive
\* in every state, and an activeDB value outside the declared ones causes no
\* camera transition.
C15_InvalidRejected ==
    /\ [](speed > 0)
    /\ [][ (SetActiveDB /\ activeDB' \notin DeclaredDBs) => camera' = camera ]_vars

\* C16: a snapshot that arrived while 'trains-source' did not exist is
\* rendered once the map has loaded, even if no further snapshot arrives.
C16_RenderedOnceLoaded ==
    (mapRef = "loaded") ~> (features = BuildFeatures(trains) \/ mapRef # "loaded")

\* C18: after the cleanup has removed the map no callback uses it: none of the
\* blink tick, the trains effect and the camera commands runs on a null ref,
\* and the track-geometry response does not resolve on a removed map.
C18_NoUseAfterRemove ==
    [][ /\ mapRef = "null" => ~(BlinkTick \/ ReceiveSnapshot \/ ContextSwitch)
        /\ tracksFetch = "orphaned" => ~FetchResolve ]_vars

---------------------------------------------------------------------------
(* Properties of the clock's interval and of the scripted meetings *)

\* C17: while mounted exactly one clock interval is live when isPlaying and
\* none when paused; while paused only Reset changes simTime, to 0; a speed
\* change or a Play/Pause toggle leaves simTime unchanged.
C17_OneIntervalWhilePlaying ==
    /\ [](simMounted => Cardinality(clockTimers) = IF isPlaying THEN 1 ELSE 0)
    /\ [][ /\ (simMounted /\ ~isPlaying /\ simTime' # simTime) => (Reset /\ simTime' = 0)
           /\ (TogglePlay \/ SetSpeed) => simTime' = simTime ]_vars

\* the speed was changed while the clock was paused mid-run
C17_Witness ==
    /\ simMounted
    /\ ~isPlaying
    /\ clockTimers = {}
    /\ simTime > 0
    /\ speed = 10
    /\ lastEvent = "speed"

\* C19: Utkal is never nearer BSP than Janshatabdi up to minute 95, both are
\* at km 40 at minute 95, Utkal is strictly nearer BSP between minutes 95 and
\* 135, and Janshatabdi stays at km 40 from minute 95 until minute 105.
C19_UtkalOvertakesAtAkaltara ==
    LET u == renderedKm("UTKAL_EXP")
        j == renderedKm("JANSHATABDI")
    IN  /\ simTime <= Minutes(95) => u >= j
        /\ simTime = Minutes(95) => (u = Km(40) /\ j = Km(40))
        /\ (Minutes(95) < simTime /\ simTime < Minutes(135)) => u < j
        /\ (Minutes(95) <= simTime /\ simTime < Minutes(105)) => j = Km(40)

\* Janshatabdi has left Akaltara and Utkal is rendered ahead of it
C19_Witness ==
    /\ simTime > Minutes(105)
    /\ simTime < Minutes(135)
    /\ renderedKm("JANSHATABDI") < Km(40)
    /\ renderedKm("UTKAL_EXP") < renderedKm("JANSHATABDI")

\* C20 as stated: RAJDHANI and JANSHATABDI, both on trackIndex 1, are never
\* rendered with Rajdhani strictly below Janshatabdi at one time of a run and
\* strictly above it at a later one.
C20_NoHeadOnPass ==
    ~( /\ trainsConfig["RAJDHANI"].trackIndex = trainsConfig["JANSHATABDI"].trackIndex
       /\ wasBelow
       /\ renderedKm("RAJDHANI") > renderedKm("JANSHATABDI") )

\* C20: the two markers of trackIndex 1 pass each other once: Rajdhani is
\* strictly below Janshatabdi at every time up to 66.2 minutes and strictly
\* above it at every time from 66.4 minutes on.
C20_PassBetween66And67 ==
    LET r == renderedKm("RAJDHANI")
        j == renderedKm("JANSHATABDI")
    IN  /\ simTime <= Minutes(66) + 1 => r < j
        /\ simTime >= Minutes(66) + 2 => r > j

\* the first rendered time after the two markers have passed each other
C20_Witness ==
    /\ simTime = Minutes(66) + 2
    /\ wasBelow
    /\ renderedKm("RAJDHANI") > renderedKm("JANSHATABDI")

===========================================================================
